---------------------------- MODULE Spec2Model ----------------------------
(***************************************************************************)
(* A model of the Wabbit lexer (src/src/lexer.rs) together with the        *)
(* location, token and error-context code it uses, of the scope arena      *)
(* (src/src/context.rs) and of the value and operator conversions          *)
(* (src/src/types.rs, src/src/token.rs).                                   *)
(*                                                                         *)
(* A character is a one-character string; a source text, a name and a      *)
(* rendered text are sequences of characters.  One action of the model is  *)
(* one iteration of the scanning loop of Lexer::run (one arm of its        *)
(* match), or the loop's exit.  The inner loops of an arm are RECURSIVE    *)
(* operators over the lexer record.                                        *)
(***************************************************************************)
EXTENDS Integers, Sequences, FiniteSets, TLC

(***************************************************************************)
(* Bounds of the model.                                                    *)
(***************************************************************************)
\* longest source text drawn from the whole alphabet
MaxLen == 2
\* longest source text drawn from one of the focused sub-alphabets
MaxFocusLen == 4
\* longest run of digits (10 digits reach past i32::MAX)
MaxDigitRun == 10
\* largest line and column of the locations that are compared
MaxCoord == 1
\* most calls of enter_scope on one Environment
MaxEnters == 5
\* longest source text an ErrorContext is built for
MaxCtxLen == 4
\* largest line and largest column of the spans an ErrorContext is built for
MaxLine == 3
MaxCol == 2

(***************************************************************************)
(* Characters and the character classes of the match in Lexer::run.        *)
(***************************************************************************)
\* Option<char>::None, the result of next()/peek() at the end of the input
None == ""

Digits == {"0", "1", "2", "3", "4", "5", "6", "7", "8", "9"}

Letters ==
    {"a", "b", "c", "d", "e", "f", "g", "h", "i", "j", "k", "l", "m", "n",
     "o", "p", "q", "r", "s", "t", "u", "v", "w", "x", "y", "z", "A", "Z"}

Whitespace == {" ", "\n", "\t"}

IsWhitespace(c) == c \in Whitespace

IsAsciiDigit(c) == c \in Digits

IsAsciiAlphabetic(c) == c \in Letters

IsAsciiAlphanumeric(c) == IsAsciiAlphabetic(c) \/ IsAsciiDigit(c)

(***************************************************************************)
(* location.rs                                                             *)
(***************************************************************************)
LocNew(line, col) == [line |-> line, col |-> col]

LocDefault == LocNew(1, 0)

SpanNew(start, end) == [start |-> start, end |-> end]

LocEmpty == LocNew(0, 0)

\* LocEq that takes the empty location for a wildcard
LocEq_Wildcard(a, b) ==
    \/ (a.line = 0 /\ a.col = 0)
    \/ (b.line = 0 /\ b.col = 0)
    \/ (a.line = b.line /\ a.col = b.col)

\* #[derive(PartialEq, Eq)] on Loc
LocEq(a, b) == a.line = b.line /\ a.col = b.col

\* SpanIsEmpty that is satisfied with one empty end
SpanIsEmpty_Either(s) == LocEq(s.start, LocEmpty) \/ LocEq(s.end, LocEmpty)

SpanIsEmpty(s) == LocEq(s.start, LocEmpty) /\ LocEq(s.end, LocEmpty)

SpanEq(a, b) ==
    IF SpanIsEmpty(a) \/ SpanIsEmpty(b) THEN TRUE
    ELSE LocEq(a.start, b.start) /\ LocEq(a.end, b.end)

(***************************************************************************)
(* input.rs: ErrorContext::new.  The extract is kept as one entry per      *)
(* rendered source line: its number, its text and its underline.  usize    *)
(* subtraction below zero aborts: `start - 1` with start = 0 panics in a   *)
(* debug build and, wrapped to usize::MAX in a release build, makes        *)
(* " ".repeat panic with a capacity overflow.  The other subtractions are  *)
(* modelled with overflow checks on; the lexer only passes spans whose     *)
(* start and end are the same location, where they cannot underflow.       *)
(***************************************************************************)
RECURSIVE SplitLines(_)
SplitLines(s) ==
    IF \E i \in 1..Len(s) : s[i] = "\n"
    THEN LET i == CHOOSE k \in 1..Len(s) :
                      s[k] = "\n" /\ \A j \in 1..(k - 1) : s[j] # "\n"
         IN  <<SubSeq(s, 1, i - 1)>> \o SplitLines(SubSeq(s, i + 1, Len(s)))
    ELSE <<s>>

Repeat(c, n) == [i \in 1..n |-> c]

ErrorContextNew(input, span) ==
    IF input = <<>>
    THEN [panic |-> FALSE, extract |-> <<>>, span |-> span]
    ELSE IF span.start.line < 1 \/ span.end.line < span.start.line
    THEN [panic |-> TRUE]
    ELSE
      LET lines  == SplitLines(input)
          first  == span.start.line
          count  == span.end.line - span.start.line + 1
          last   == IF first + count - 1 < Len(lines)
                    THEN first + count - 1 ELSE Len(lines)
          taken  == first..last
          startc(n) == IF n = span.start.line THEN span.start.col ELSE 1
          endc(n)   == IF n = span.end.line THEN span.end.col
                       ELSE Len(lines[n])
          bad(n) == startc(n) < 1 \/ endc(n) < startc(n)
      IN  IF \E n \in taken : bad(n)
          THEN [panic |-> TRUE]
          ELSE [panic |-> FALSE,
                extract |->
                  [k \in 1..(last - first + 1) |->
                     LET n == first + k - 1
                     IN  [num |-> n,
                          line |-> lines[n],
                          underline |->
                            Repeat(" ", startc(n) - 1)
                              \o Repeat("^", endc(n) - startc(n) + 1)]],
                span |-> span]

(***************************************************************************)
(* lexer.rs: the lexer record and its helpers.                             *)
(* start_pos and lexemes are history fields: the index of the first        *)
(* character consumed for the token being scanned, and for every pushed    *)
(* token the (1-based) indices of its first and last consumed character.   *)
(***************************************************************************)
LexerNew(input) ==
    [input |-> input, pos |-> 0, loc |-> LocDefault, start_loc |-> LocDefault,
     tokens |-> <<>>, start_pos |-> 0, lexemes |-> <<>>]

\* input.source.chars().nth(pos)
CharAt(input, p) == IF p < Len(input) THEN input[p + 1] ELSE None

\* Lnext with the column of a new line starting at 1
Lnext_ColOne(L) ==
    LET c == CharAt(L.input, L.pos)
    IN  IF c = None
        THEN [c |-> None, l |-> L]
        ELSE [c |-> c,
              l |-> [L EXCEPT !.pos = @ + 1,
                              !.loc = IF c = "\n"
                                      THEN LocNew(@.line + 1, 1)
                                      ELSE LocNew(@.line, @.col + 1)]]

Lnext(L) ==
    LET c == CharAt(L.input, L.pos)
    IN  IF c = None
        THEN [c |-> None, l |-> L]
        ELSE [c |-> c,
              l |-> [L EXCEPT !.pos = @ + 1,
                              !.loc = IF c = "\n"
                                      THEN LocNew(@.line + 1, 0)
                                      ELSE LocNew(@.line, @.col + 1)]]

Lpeek(L) == CharAt(L.input, L.pos)

Laccept(L, c) ==
    IF Lpeek(L) = c
    THEN [ok |-> TRUE, l |-> Lnext(L).l]
    ELSE [ok |-> FALSE, l |-> L]

\* Lpush that writes over the last token when there is one
Lpush_Overwrite(L, kind) ==
    LET t == [kind |-> kind, span |-> SpanNew(L.start_loc, L.loc)]
        x == [first |-> L.start_pos, last |-> L.pos]
    IN  IF L.tokens = <<>>
        THEN [L EXCEPT !.tokens = <<t>>, !.lexemes = <<x>>]
        ELSE [L EXCEPT !.tokens[Len(L.tokens)] = t,
                       !.lexemes[Len(L.lexemes)] = x]

Lpush(L, kind) ==
    [L EXCEPT !.tokens = Append(@, [kind |-> kind,
                                    span |-> SpanNew(L.start_loc, L.loc)]),
              !.lexemes = Append(@, [first |-> L.start_pos, last |-> L.pos])]

\* outcomes of one iteration of the scanning loop
Continue == [tag |-> "Continue"]

Panic == [tag |-> "Panic"]

UnexpectedChar(c) == [kind |-> "UnexpectedChar", ch |-> c]

UnexpectedEOF == [kind |-> "UnexpectedEOF"]

Lerr(L, e) ==
    LET ctx == ErrorContextNew(L.input, SpanNew(L.loc, L.loc))
    IN  IF ctx.panic THEN Panic
        ELSE [tag |-> "Err", err |-> e,
              ctx |-> [extract |-> ctx.extract, span |-> ctx.span]]

Pushed(L, kind) == [l |-> Lpush(L, kind), res |-> Continue]

Failed(L, e) == [l |-> L, res |-> Lerr(L, e)]

(***************************************************************************)
(* Token kinds (token.rs).                                                 *)
(***************************************************************************)
Simple(tag) == [tag |-> tag]

KName(s) == [tag |-> "Name", name |-> s]

KInt(i) == [tag |-> "Int", int |-> i]

KFloat(f) == [tag |-> "Float", float |-> f]

KChar(c) == [tag |-> "Char", ch |-> c]

KBool(b) == [tag |-> "Bool", bool |-> b]

(***************************************************************************)
(* The state: the input, the fields of the Lexer and what tokenize         *)
(* returned ("None" while run() is still scanning).                        *)
(***************************************************************************)
VARIABLES source, pos, loc, start_loc, tokens, start_pos, lexemes, result

(***************************************************************************)
(* The Environment of context.rs: the scopes of the arena in allocation    *)
(* order, the index of the current scope and two history variables: the    *)
(* number of enter_scope calls so far, and depth, the count that starts    *)
(* at 0, is raised by one at every enter_scope and lowered by one, not     *)
(* below 0, at every exit_scope.  `call` is one call of a function that    *)
(* has no state of its own: its name, its arguments and, once it has       *)
(* returned, its result.                                                   *)
(***************************************************************************)
VARIABLES arena, current, enters, depth, call

lexvars == <<source, pos, loc, start_loc, tokens, start_pos, lexemes, result>>

envvars == <<arena, current, enters, depth>>

vars == <<source, pos, loc, start_loc, tokens, start_pos, lexemes, result,
          arena, current, enters, depth, call>>

\* no Environment has been made
NoEnv == arena = <<>> /\ current = 0 /\ enters = 0 /\ depth = 0

\* no call is under way
NoCall == [fn |-> "none", done |-> TRUE]

\* tokenize is not running
NoLexer ==
    /\ source = <<>>
    /\ pos = 0
    /\ loc = LocDefault
    /\ start_loc = LocDefault
    /\ tokens = <<>>
    /\ start_pos = 0
    /\ lexemes = <<>>
    /\ result = [tag |-> "Idle"]

Self ==
    [input |-> source, pos |-> pos, loc |-> loc, start_loc |-> start_loc,
     tokens |-> tokens, start_pos |-> start_pos, lexemes |-> lexemes]

(***************************************************************************)
(* Number parsing: num.parse::<i32>() and num.parse::<f64>().              *)
(* An f64 is kept as its exact decimal value: the digits of the integer    *)
(* part without leading zeros and the digits of the fraction without       *)
(* trailing zeros.  This is what the parse yields, up to the shortest      *)
(* round-trip rendering, for texts of at most 15 significant digits.       *)
(***************************************************************************)
DigitChars == <<"0", "1", "2", "3", "4", "5", "6", "7", "8", "9">>

DigitVal(c) == (CHOOSE i \in 1..10 : DigitChars[i] = c) - 1

I32MaxDigits == <<"2", "1", "4", "7", "4", "8", "3", "6", "4", "7">>

RECURSIVE StripLeadingZeros(_)
StripLeadingZeros(d) ==
    IF d # <<>> /\ Head(d) = "0" THEN StripLeadingZeros(Tail(d)) ELSE d

RECURSIVE StripTrailingZeros(_)
StripTrailingZeros(d) ==
    IF d # <<>> /\ d[Len(d)] = "0"
    THEN StripTrailingZeros(SubSeq(d, 1, Len(d) - 1)) ELSE d

\* a <= b for digit sequences of the same length
RECURSIVE DigitsLeq(_, _)
DigitsLeq(a, b) ==
    IF a = <<>> THEN TRUE
    ELSE IF DigitVal(Head(a)) # DigitVal(Head(b))
    THEN DigitVal(Head(a)) < DigitVal(Head(b))
    ELSE DigitsLeq(Tail(a), Tail(b))

RECURSIVE DecValue(_)
DecValue(d) ==
    IF d = <<>> THEN 0
    ELSE DecValue(SubSeq(d, 1, Len(d) - 1)) * 10 + DigitVal(d[Len(d)])

FitsI32(d) ==
    LET s == StripLeadingZeros(d)
    IN  Len(s) < 10 \/ (Len(s) = 10 /\ DigitsLeq(s, I32MaxDigits))

\* Err (ok = FALSE) when the value is past i32::MAX
ParseI32(num) ==
    IF FitsI32(num) THEN [ok |-> TRUE, val |-> DecValue(StripLeadingZeros(num))]
    ELSE [ok |-> FALSE]

\* num is digits "." digits
ParseF64(num) ==
    LET dot == CHOOSE i \in 1..Len(num) : num[i] = "."
    IN  [ip |-> StripLeadingZeros(SubSeq(num, 1, dot - 1)),
         fp |-> StripTrailingZeros(SubSeq(num, dot + 1, Len(num)))]

(***************************************************************************)
(* The arms of the match in Lexer::run.  Each takes the lexer after the    *)
(* loop's next() and returns the lexer after the arm with the outcome.     *)
(***************************************************************************)
RECURSIVE TakeDigits(_, _)
TakeDigits(L, num) ==
    LET c == Lpeek(L)
    IN  IF IsAsciiDigit(c) THEN TakeDigits(Lnext(L).l, Append(num, c))
        ELSE [l |-> L, num |-> num]

ArmNumber(L, c) ==
    LET a == TakeDigits(L, <<c>>)
    IN  IF Lpeek(a.l) = "."
        THEN LET b == TakeDigits(Lnext(a.l).l, Append(a.num, "."))
             IN  Pushed(b.l, KFloat(ParseF64(b.num)))
        ELSE IF ParseI32(a.num).ok
        THEN Pushed(a.l, KInt(ParseI32(a.num).val))
        ELSE [l |-> a.l, res |-> Panic]

Escapes == {"n", "t", "r", "\\", "'"}

Unescape(c) ==
    CASE c = "n" -> "\n"
      [] c = "t" -> "\t"
      [] c = "r" -> "\r"
      [] c = "\\" -> "\\"
      [] c = "'" -> "'"

ClosingQuote(L, character) ==
    LET n == Lnext(L)
    IN  IF n.c = "'" THEN Pushed(n.l, KChar(character))
        ELSE IF n.c = None THEN Failed(n.l, UnexpectedEOF)
        ELSE Failed(n.l, UnexpectedChar(n.c))

ArmChar(L) ==
    LET n1 == Lnext(L)
    IN  IF n1.c = "\\"
        THEN LET n2 == Lnext(n1.l)
             IN  IF n2.c \in Escapes THEN ClosingQuote(n2.l, Unescape(n2.c))
                 ELSE IF n2.c = None THEN Failed(n2.l, UnexpectedEOF)
                 ELSE Failed(n2.l, UnexpectedChar(n2.c))
        ELSE IF n1.c = None THEN Failed(n1.l, UnexpectedEOF)
        ELSE IF n1.c = "'" THEN Failed(n1.l, UnexpectedChar(n1.c))
        ELSE ClosingQuote(n1.l, n1.c)

\* TakeName that stops at a digit
RECURSIVE TakeName_LettersOnly(_, _)
TakeName_LettersOnly(L, name) ==
    LET c == Lpeek(L)
    IN  IF IsAsciiAlphabetic(c) \/ c = "_"
        THEN TakeName_LettersOnly(Lnext(L).l, Append(name, c))
        ELSE [l |-> L, name |-> name]

RECURSIVE TakeName(_, _)
TakeName(L, name) ==
    LET c == Lpeek(L)
    IN  IF IsAsciiAlphanumeric(c) \/ c = "_"
        THEN TakeName(Lnext(L).l, Append(name, c))
        ELSE [l |-> L, name |-> name]

KeywordTable ==
    << [text |-> <<"v", "a", "r">>, kind |-> Simple("Var")],
       [text |-> <<"c", "o", "n", "s", "t">>, kind |-> Simple("Const")],
       [text |-> <<"p", "r", "i", "n", "t">>, kind |-> Simple("Print")],
       [text |-> <<"b", "r", "e", "a", "k">>, kind |-> Simple("Break")],
       [text |-> <<"c", "o", "n", "t", "i", "n", "u", "e">>,
        kind |-> Simple("Continue")],
       [text |-> <<"i", "f">>, kind |-> Simple("If")],
       [text |-> <<"e", "l", "s", "e">>, kind |-> Simple("Else")],
       [text |-> <<"w", "h", "i", "l", "e">>, kind |-> Simple("While")],
       [text |-> <<"f", "u", "n", "c">>, kind |-> Simple("Func")],
       [text |-> <<"r", "e", "t", "u", "r", "n">>, kind |-> Simple("Return")],
       [text |-> <<"t", "r", "u", "e">>, kind |-> KBool(TRUE)],
       [text |-> <<"f", "a", "l", "s", "e">>, kind |-> KBool(FALSE)] >>

NameKind(name) ==
    IF \E i \in 1..Len(KeywordTable) : KeywordTable[i].text = name
    THEN KeywordTable[CHOOSE i \in 1..Len(KeywordTable) :
                        KeywordTable[i].text = name].kind
    ELSE KName(name)

ArmName(L, c) ==
    LET a == TakeName(L, <<c>>)
    IN  Pushed(a.l, NameKind(a.name))

PunctChars == {";", ",", "(", ")", "{", "}", "+", "-", "*"}

PunctKind(c) ==
    CASE c = ";" -> Simple("Semi")
      [] c = "," -> Simple("Comma")
      [] c = "(" -> Simple("LParen")
      [] c = ")" -> Simple("RParen")
      [] c = "{" -> Simple("LBrace")
      [] c = "}" -> Simple("RBrace")
      [] c = "+" -> Simple("Plus")
      [] c = "-" -> Simple("Minus")
      [] c = "*" -> Simple("Star")

ArmPunct(L, c) == Pushed(L, PunctKind(c))

OptEqChars == {"=", "!", "<", ">"}

\* the token of c alone and the token of c followed by '='
OneCharKind(c) ==
    CASE c = "=" -> Simple("Assign")
      [] c = "!" -> Simple("Not")
      [] c = "<" -> Simple("Less")
      [] c = ">" -> Simple("Greater")

TwoCharKind(c) ==
    CASE c = "=" -> Simple("Equal")
      [] c = "!" -> Simple("NotEqual")
      [] c = "<" -> Simple("LessEqual")
      [] c = ">" -> Simple("GreaterEqual")

\* ArmOptEq that absorbs every '=' that follows
RECURSIVE TakeEquals(_)
TakeEquals(L) == IF Lpeek(L) = "=" THEN TakeEquals(Lnext(L).l) ELSE L

ArmOptEq_Greedy(L, c) ==
    LET a == Laccept(L, "=")
    IN  IF a.ok THEN Pushed(TakeEquals(a.l), TwoCharKind(c))
        ELSE Pushed(a.l, OneCharKind(c))

ArmOptEq(L, c) ==
    LET a == Laccept(L, "=")
    IN  IF a.ok THEN Pushed(a.l, TwoCharKind(c))
        ELSE Pushed(a.l, OneCharKind(c))

RECURSIVE SkipLineComment(_)
SkipLineComment(L) ==
    LET n == Lnext(L)
    IN  IF n.c = None \/ n.c = "\n" THEN n.l ELSE SkipLineComment(n.l)

\* SkipBlockComment that ends at a '/' whose preceding character is '*'
RECURSIVE SkipBlockComment_PrevStar(_)
SkipBlockComment_PrevStar(L) ==
    LET n == Lnext(L)
    IN  IF n.c = None THEN n.l
        ELSE IF n.c = "/" /\ L.input[L.pos] = "*" THEN n.l
        ELSE SkipBlockComment_PrevStar(n.l)

RECURSIVE SkipBlockComment(_)
SkipBlockComment(L) ==
    LET n == Lnext(L)
    IN  IF n.c = None THEN n.l
        ELSE IF n.c = "*" /\ Lpeek(n.l) = "/" THEN Lnext(n.l).l
        ELSE SkipBlockComment(n.l)

\* ArmSlash that rejects a block comment the input ends in
ArmSlash_StrictComment(L) ==
    LET a == Laccept(L, "/")
        b == Laccept(L, "*")
        e == SkipBlockComment(b.l)
        closed == /\ e.pos >= b.l.pos + 2
                  /\ L.input[e.pos] = "/"
                  /\ L.input[e.pos - 1] = "*"
    IN  IF a.ok THEN [l |-> SkipLineComment(a.l), res |-> Continue]
        ELSE IF b.ok
        THEN IF closed THEN [l |-> e, res |-> Continue]
             ELSE Failed(e, UnexpectedEOF)
        ELSE Pushed(L, Simple("Slash"))

ArmSlash(L) ==
    LET a == Laccept(L, "/")
        b == Laccept(L, "*")
    IN  IF a.ok THEN [l |-> SkipLineComment(a.l), res |-> Continue]
        ELSE IF b.ok THEN [l |-> SkipBlockComment(b.l), res |-> Continue]
        ELSE Pushed(L, Simple("Slash"))

AndOrChars == {"&", "|"}

AndOrKind(c) == IF c = "&" THEN Simple("And") ELSE Simple("Or")

\* ArmAndOr that takes a single '&' or '|' as the operator
ArmAndOr_Single(L, c) == Pushed(Laccept(L, c).l, AndOrKind(c))

ArmAndOr(L, c) ==
    LET a == Laccept(L, c)
    IN  IF a.ok THEN Pushed(a.l, AndOrKind(c))
        ELSE Failed(a.l, UnexpectedChar(c))

\* ArmOther that skips the character and goes on
ArmOther_Skip(L, c) == [l |-> L, res |-> Continue]

ArmOther(L, c) == Failed(L, UnexpectedChar(c))

\* the characters some arm before the last one takes
Accepted(c) ==
    \/ IsWhitespace(c) \/ IsAsciiDigit(c) \/ c = "'"
    \/ IsAsciiAlphabetic(c) \/ c = "_"
    \/ c \in PunctChars \/ c \in OptEqChars \/ c = "/" \/ c \in AndOrChars

(***************************************************************************)
(* token.rs: impl Display for Token.  "{}" of an i32 is its decimal text,  *)
(* "{:?}" of an f64 is the shortest decimal text that parses back to it,   *)
(* with an exponent when the value is at least 1e16 or, not being zero,    *)
(* below 1e-4.  Every kind is written between single quotes.               *)
(***************************************************************************)
RECURSIVE NatText(_)
NatText(n) ==
    IF n < 10 THEN <<DigitChars[n + 1]>>
    ELSE NatText(n \div 10) \o <<DigitChars[(n % 10) + 1]>>

I32Text(i) == IF i < 0 THEN <<"-">> \o NatText(0 - i) ELSE NatText(i)

\* d.ddd of the significant digits m
Mantissa(m) == <<Head(m)>> \o (IF Len(m) > 1 THEN <<".">> \o Tail(m) ELSE <<>>)

F64Debug(f) ==
    IF f.ip = <<>> /\ f.fp = <<>>
    THEN <<"0", ".", "0">>
    ELSE IF Len(f.ip) >= 17
    THEN Mantissa(StripTrailingZeros(f.ip \o f.fp))
           \o <<"e">> \o NatText(Len(f.ip) - 1)
    ELSE IF f.ip = <<>> /\ Len(f.fp) - Len(StripLeadingZeros(f.fp)) >= 4
    THEN Mantissa(StripLeadingZeros(f.fp))
           \o <<"e", "-">>
           \o NatText(Len(f.fp) - Len(StripLeadingZeros(f.fp)) + 1)
    ELSE (IF f.ip = <<>> THEN <<"0">> ELSE f.ip)
           \o <<".">> \o (IF f.fp = <<>> THEN <<"0">> ELSE f.fp)

KindText(kind) ==
    CASE kind.tag = "Name" -> kind.name
      [] kind.tag = "Int" -> I32Text(kind.int)
      [] kind.tag = "Float" -> F64Debug(kind.float)
      [] kind.tag = "Bool" -> IF kind.bool THEN <<"t", "r", "u", "e">>
                              ELSE <<"f", "a", "l", "s", "e">>
      [] kind.tag = "Char" -> <<kind.ch>>
      [] kind.tag = "Semi" -> <<";">>
      [] kind.tag = "Comma" -> <<",">>
      [] kind.tag = "Assign" -> <<"=">>
      [] kind.tag = "LParen" -> <<"(">>
      [] kind.tag = "RParen" -> <<")">>
      [] kind.tag = "LBrace" -> <<"{">>
      [] kind.tag = "RBrace" -> <<"}">>
      [] kind.tag = "Not" -> <<"!">>
      [] kind.tag = "Plus" -> <<"+">>
      [] kind.tag = "Minus" -> <<"-">>
      [] kind.tag = "Star" -> <<"*">>
      [] kind.tag = "Slash" -> <<"/">>
      [] kind.tag = "Less" -> <<"<">>
      [] kind.tag = "LessEqual" -> <<"<", "=">>
      [] kind.tag = "Greater" -> <<">">>
      [] kind.tag = "GreaterEqual" -> <<">", "=">>
      [] kind.tag = "Equal" -> <<"=", "=">>
      [] kind.tag = "NotEqual" -> <<"!", "=">>
      [] kind.tag = "And" -> <<"&", "&">>
      [] kind.tag = "Or" -> <<"|", "|">>
      [] kind.tag = "Var" -> <<"v", "a", "r">>
      [] kind.tag = "Const" -> <<"c", "o", "n", "s", "t">>
      [] kind.tag = "Print" -> <<"p", "r", "i", "n", "t">>
      [] kind.tag = "Break" -> <<"b", "r", "e", "a", "k">>
      [] kind.tag = "Continue" -> <<"c", "o", "n", "t", "i", "n", "u", "e">>
      [] kind.tag = "If" -> <<"i", "f">>
      [] kind.tag = "Else" -> <<"e", "l", "s", "e">>
      [] kind.tag = "While" -> <<"w", "h", "i", "l", "e">>
      [] kind.tag = "Func" -> <<"f", "u", "n", "c">>
      [] kind.tag = "Return" -> <<"r", "e", "t", "u", "r", "n">>

Display(token) == <<"'">> \o KindText(token.kind) \o <<"'">>

\* Span::default(), the span of a token built by hand
SpanDefault == SpanNew(LocNew(0, 0), LocNew(0, 0))

(***************************************************************************)
(* The source texts the model scans.                                       *)
(***************************************************************************)
SeqsUpTo(S, n) == UNION {[1..k -> S] : k \in 0..n}

Alphabet ==
    {" ", "\n", "\t", "0", "1", ".", "'", "\\", "n", "a", "_", ";", ",", "(",
     ")", "{", "}", "=", "!", "+", "-", "*", "/", "<", ">", "&", "|", "#", "@"}

NumberChars == {"0", "1", ".", "a", " "}

CharLitChars == {"'", "\\", "n", "a", "\n"}

OperatorChars == {"=", "!", "<", ">", "a"}

LogicChars == {"&", "|", "a", " "}

CommentChars == {"/", "*", "a", "\n", " "}

FocusSources ==
    UNION {SeqsUpTo(S, MaxFocusLen) :
             S \in {NumberChars, CharLitChars, OperatorChars, LogicChars,
                    CommentChars}}

\* every keyword alone, and with one more character before or after it
AffixChars == {"1", "_", "y", " ", "="}

KeywordSources ==
    UNION {{KeywordTable[i].text}
             \cup {KeywordTable[i].text \o <<c>> : c \in AffixChars}
             \cup {<<c>> \o KeywordTable[i].text : c \in AffixChars} :
           i \in 1..Len(KeywordTable)}

\* runs of digits up to and past the ten digits of i32::MAX
DigitRunSources ==
    UNION {[1..k -> {"1", "9"}] : k \in 1..MaxDigitRun}
      \cup {I32MaxDigits, SubSeq(I32MaxDigits, 1, 9) \o <<"8">>}

\* Name, Int, Float and Bool tokens to render, and their rendered texts
RenderedKinds ==
    {KName(<<"x">>), KName(<<"a", "b", "1">>), KName(<<"_">>),
     KInt(0), KInt(7), KInt(42),
     KFloat([ip |-> <<"1">>, fp |-> <<"5">>]),
     KFloat([ip |-> <<"1">>, fp |-> <<>>]),
     KFloat([ip |-> <<>>, fp |-> <<"2", "5">>]),
     KBool(TRUE), KBool(FALSE)}

RenderedSources ==
    {Display([kind |-> k, span |-> SpanDefault]) : k \in RenderedKinds}

\* a block comment with a second opener in it, and text after its end
NestedCommentSource ==
    <<"/", "*", " ", "/", "*", " ", "*", "/", " ", "x", " ", "*", "/">>

Sources ==
    SeqsUpTo(Alphabet, MaxLen) \cup FocusSources \cup KeywordSources
      \cup DigitRunSources \cup RenderedSources \cup {NestedCommentSource}

(***************************************************************************)
(* Lexer::tokenize: Lexer::new, then the iterations of run(), then the     *)
(* result.                                                                 *)
(***************************************************************************)
Running == result.tag = "None"

Init ==
    /\ source \in Sources
    /\ pos = LexerNew(source).pos
    /\ loc = LexerNew(source).loc
    /\ start_loc = LexerNew(source).start_loc
    /\ tokens = LexerNew(source).tokens
    /\ start_pos = LexerNew(source).start_pos
    /\ lexemes = LexerNew(source).lexemes
    /\ result = [tag |-> "None"]
    /\ NoEnv
    /\ call = NoCall

\* Begin with start_loc taken before next()
Begin_StartBeforeNext(L) ==
    LET n == Lnext(L)
    IN  IF n.c = None THEN n
        ELSE [c |-> n.c,
              l |-> [n.l EXCEPT !.start_loc = L.loc, !.start_pos = n.l.pos]]

\* `while let Some(c) = self.next() { self.start_loc = self.loc; ...`
Begin(L) ==
    LET n == Lnext(L)
    IN  IF n.c = None THEN n
        ELSE [c |-> n.c,
              l |-> [n.l EXCEPT !.start_loc = n.l.loc, !.start_pos = n.l.pos]]

\* the lexer and the outcome after one iteration: `return self.err(..)`
\* and a panic leave tokenize, anything else goes round the loop
Apply(o) ==
    /\ pos' = o.l.pos
    /\ loc' = o.l.loc
    /\ start_loc' = o.l.start_loc
    /\ tokens' = o.l.tokens
    /\ start_pos' = o.l.start_pos
    /\ lexemes' = o.l.lexemes
    /\ result' = IF o.res = Continue THEN result ELSE o.res
    /\ UNCHANGED <<source, arena, current, enters, depth, call>>

ScanWhitespace ==
    LET b == Begin(Self)
    IN  /\ Running
        /\ IsWhitespace(b.c)
        /\ Apply([l |-> b.l, res |-> Continue])

ScanNumber ==
    LET b == Begin(Self)
    IN  /\ Running
        /\ IsAsciiDigit(b.c)
        /\ Apply(ArmNumber(b.l, b.c))

ScanChar ==
    LET b == Begin(Self)
    IN  /\ Running
        /\ b.c = "'"
        /\ Apply(ArmChar(b.l))

ScanName ==
    LET b == Begin(Self)
    IN  /\ Running
        /\ IsAsciiAlphabetic(b.c) \/ b.c = "_"
        /\ Apply(ArmName(b.l, b.c))

ScanPunct ==
    LET b == Begin(Self)
    IN  /\ Running
        /\ b.c \in PunctChars
        /\ Apply(ArmPunct(b.l, b.c))

ScanOptEq ==
    LET b == Begin(Self)
    IN  /\ Running
        /\ b.c \in OptEqChars
        /\ Apply(ArmOptEq(b.l, b.c))

ScanSlash ==
    LET b == Begin(Self)
    IN  /\ Running
        /\ b.c = "/"
        /\ Apply(ArmSlash(b.l))

ScanAndOr ==
    LET b == Begin(Self)
    IN  /\ Running
        /\ b.c \in AndOrChars
        /\ Apply(ArmAndOr(b.l, b.c))

ScanOther ==
    LET b == Begin(Self)
    IN  /\ Running
        /\ b.c # None
        /\ ~Accepted(b.c)
        /\ Apply(ArmOther(b.l, b.c))

\* next() returned None: run() returns Ok(()) and tokenize Ok(lexer.tokens)
Finish ==
    /\ Running
    /\ Begin(Self).c = None
    /\ result' = [tag |-> "Ok", tokens |-> tokens]
    /\ UNCHANGED <<source, pos, loc, start_loc, tokens, start_pos, lexemes>>
    /\ UNCHANGED <<arena, current, enters, depth, call>>

Next ==
    \/ ScanWhitespace
    \/ ScanNumber
    \/ ScanChar
    \/ ScanName
    \/ ScanPunct
    \/ ScanOptEq
    \/ ScanSlash
    \/ ScanAndOr
    \/ ScanOther
    \/ Finish

Spec == Init /\ [][Next]_vars

\* tokenize is one synchronous call on one thread: while the exit of the
\* loop or an iteration of it is possible, it is taken.  This is
\* WF_vars(Next): the exit is Finish, and for the iterations
\* ENABLED <<Next>>_vars is written out, an iteration being possible
\* exactly when next() has a character to return (the last arm of the
\* match takes every character no other arm takes).
SpecLive ==
    /\ Init
    /\ [][Next]_vars
    /\ WF_vars(Finish)
    /\ ([]<>(~(Running /\ pos < Len(source))) \/ []<><<TRUE>>_vars)

(***************************************************************************)
(* Calls of the functions without state.  A call starts pending, with     *)
(* its arguments, and the action of the function completes it.            *)
(***************************************************************************)
Pending(fn, args) == [fn |-> fn, args |-> args, done |-> FALSE]

Returns(fn, ret) ==
    /\ call.fn = fn
    /\ ~call.done
    /\ call' = [fn |-> fn, args |-> call.args, done |-> TRUE, ret |-> ret]
    /\ UNCHANGED lexvars
    /\ UNCHANGED envvars

Returned(fn) == call.fn = fn /\ call.done

(***************************************************************************)
(* location.rs: the comparisons of Loc and of Span.                        *)
(***************************************************************************)
Locs == {LocNew(l, c) : l \in 0..MaxCoord, c \in 0..MaxCoord}

Spans == {SpanNew(a, b) : a \in Locs, b \in Locs}

InitLoc ==
    /\ NoLexer
    /\ NoEnv
    /\ call \in {Pending("Loc::eq", <<a, b>>) : a \in Locs, b \in Locs}
               \cup {Pending("Span::eq", <<a, b>>) : a \in Spans, b \in Spans}

CallLocEq == Returns("Loc::eq", LocEq(call.args[1], call.args[2]))

CallSpanEq == Returns("Span::eq", SpanEq(call.args[1], call.args[2]))

NextLoc == CallLocEq \/ CallSpanEq

SpecLoc == InitLoc /\ [][NextLoc]_vars

(***************************************************************************)
(* token.rs: the conversions From<TokenKind> for BinOpKind, UnaryOpKind    *)
(* and CompOpKind.  A conversion returns the operator or panics.           *)
(***************************************************************************)
Op(name) == [tag |-> "Op", op |-> name]

BinOpFrom(kind) ==
    CASE kind.tag = "Plus" -> Op("Add")
      [] kind.tag = "Minus" -> Op("Sub")
      [] kind.tag = "Star" -> Op("Mul")
      [] kind.tag = "Slash" -> Op("Div")
      [] kind.tag = "And" -> Op("And")
      [] kind.tag = "Or" -> Op("Or")
      [] OTHER -> Panic

UnaryOpFrom(kind) ==
    CASE kind.tag = "Plus" -> Op("Pos")
      [] kind.tag = "Minus" -> Op("Neg")
      [] kind.tag = "Not" -> Op("Not")
      [] OTHER -> Panic

CompOpFrom(kind) ==
    CASE kind.tag = "Less" -> Op("Lt")
      [] kind.tag = "LessEqual" -> Op("Le")
      [] kind.tag = "Greater" -> Op("Gt")
      [] kind.tag = "GreaterEqual" -> Op("Ge")
      [] kind.tag = "Equal" -> Op("Eq")
      [] kind.tag = "NotEqual" -> Op("Ne")
      [] OTHER -> Panic

\* the variants of TokenKind without a payload
SimpleTags ==
    {"Semi", "Comma", "Assign", "LParen", "RParen", "LBrace", "RBrace",
     "Not", "Plus", "Minus", "Star", "Slash", "Less", "LessEqual", "Greater",
     "GreaterEqual", "Equal", "NotEqual", "And", "Or",
     "Var", "Const", "Print", "Break", "Continue", "If", "Else", "While",
     "Func", "Return"}

TokenKinds == {Simple(t) : t \in SimpleTags} \cup RenderedKinds \cup {KChar("a")}

InitConv ==
    /\ NoLexer
    /\ NoEnv
    /\ call \in {Pending(fn, <<k>>) :
                   fn \in {"BinOpKind::from", "UnaryOpKind::from",
                           "CompOpKind::from"},
                   k \in TokenKinds}

CallBinOpFrom == Returns("BinOpKind::from", BinOpFrom(call.args[1]))

CallUnaryOpFrom == Returns("UnaryOpKind::from", UnaryOpFrom(call.args[1]))

CallCompOpFrom == Returns("CompOpKind::from", CompOpFrom(call.args[1]))

NextConv == CallBinOpFrom \/ CallUnaryOpFrom \/ CallCompOpFrom

SpecConv == InitConv /\ [][NextConv]_vars

(***************************************************************************)
(* types.rs: WabbitValue and WabbitValue::type_of.                         *)
(***************************************************************************)
DataTypes == {"Int", "Char", "Bool", "Float"}

VInt(i) == [tag |-> "Int", int |-> i]

VChar(c) == [tag |-> "Char", ch |-> c]

VFloat(f) == [tag |-> "Float", float |-> f]

VBool(b) == [tag |-> "Bool", bool |-> b]

VTypeHolder(t) == [tag |-> "TypeHolder", ty |-> t]

TypeOf(v) ==
    CASE v.tag = "Bool" -> "Bool"
      [] v.tag = "Int" -> "Int"
      [] v.tag = "Char" -> "Char"
      [] v.tag = "Float" -> "Float"
      [] v.tag = "TypeHolder" -> v.ty

WabbitValues ==
    {VInt(i) : i \in {0 - 1, 0, 1}}
      \cup {VChar("a"), VChar("b")}
      \cup {VFloat([ip |-> <<>>, fp |-> <<>>]),
            VFloat([ip |-> <<"1">>, fp |-> <<"5">>])}
      \cup {VBool(TRUE), VBool(FALSE)}
      \cup {VTypeHolder(t) : t \in DataTypes}

\* type_of of two values, one after the other
InitValue ==
    /\ NoLexer
    /\ NoEnv
    /\ call \in {Pending("WabbitValue::type_of", <<v, w>>) :
                   v \in WabbitValues, w \in WabbitValues}

CallTypeOf ==
    Returns("WabbitValue::type_of",
            <<TypeOf(call.args[1]), TypeOf(call.args[2])>>)

NextValue == CallTypeOf

SpecValue == InitValue /\ [][NextValue]_vars

(***************************************************************************)
(* context.rs: Environment over an arena of scopes.  The arena is the      *)
(* sequence of the scopes allocated so far, a reference to a scope is its  *)
(* index, and parent = 0 is Option::None.  No operation of the code adds a *)
(* binding, so every values map is the empty one.  enters counts the calls *)
(* of enter_scope.                                                         *)
(***************************************************************************)
NoParent == 0

\* Scope that drops the parent it is given
Scope_Orphan(values, parent) == [values |-> values, parent |-> NoParent]

Scope(values, parent) == [values |-> values, parent |-> parent]

HashMapNew == {}

\* Arena::alloc returns a reference to a fresh slot; slots are never freed
ArenaAlloc_Reuse(a, scope) ==
    IF a = <<>> THEN <<scope>> ELSE [a EXCEPT ![Len(a)] = scope]

ArenaAlloc(a, scope) == Append(a, scope)

EnvNew ==
    LET a == ArenaAlloc(<<>>, Scope(HashMapNew, NoParent))
    IN  [arena |-> a, current |-> Len(a)]

EnvEnterScope_ParentNone(env) ==
    LET a == ArenaAlloc(env.arena, Scope(HashMapNew, NoParent))
    IN  [arena |-> a, current |-> Len(a)]

EnvEnterScope(env) ==
    LET a == ArenaAlloc(env.arena, Scope(HashMapNew, env.current))
    IN  [arena |-> a, current |-> Len(a)]

EnvExitScope_ToRoot(env) == [arena |-> env.arena, current |-> 1]

EnvExitScope(env) ==
    IF env.arena[env.current].parent # NoParent
    THEN [arena |-> env.arena, current |-> env.arena[env.current].parent]
    ELSE env

Env == [arena |-> arena, current |-> current]

\* a finished call on the environment whose current scope was cur
EnvCalled(fn, cur) == [fn |-> fn, args |-> <<cur>>, done |-> TRUE, ret |-> "()"]

InitEnv ==
    /\ NoLexer
    /\ arena = EnvNew.arena
    /\ current = EnvNew.current
    /\ enters = 0
    /\ depth = 0
    /\ call = NoCall

EnterScope ==
    /\ enters < MaxEnters
    /\ arena' = EnvEnterScope(Env).arena
    /\ current' = EnvEnterScope(Env).current
    /\ enters' = enters + 1
    /\ depth' = depth + 1
    /\ call' = EnvCalled("Environment::enter_scope", current)
    /\ UNCHANGED lexvars

ExitScope ==
    /\ arena' = EnvExitScope(Env).arena
    /\ current' = EnvExitScope(Env).current
    /\ call' = EnvCalled("Environment::exit_scope", current)
    /\ depth' = IF depth > 0 THEN depth - 1 ELSE 0
    /\ UNCHANGED enters
    /\ UNCHANGED lexvars

NextEnv == EnterScope \/ ExitScope

SpecEnv == InitEnv /\ [][NextEnv]_vars

(***************************************************************************)
(* input.rs: ErrorContext::new on any source and span.  The arithmetic on  *)
(* lines and columns is unsigned: a build with overflow checks panics      *)
(* where it leaves the range (ErrorContextNew), a build without them wraps *)
(* modulo 2^64 (ErrorContextNewWrapping); there a repeat count of 2^64 - 1 *)
(* or near it exceeds any capacity and panics.  A call takes either        *)
(* outcome.                                                                *)
(***************************************************************************)
ErrorContextNewWrapping(input, span) ==
    IF input = <<>>
    THEN [panic |-> FALSE, extract |-> <<>>, span |-> span]
    ELSE
      LET lines  == SplitLines(input)
          skip   == IF span.start.line = 0 THEN Len(lines)
                    ELSE span.start.line - 1
          take   == IF span.end.line + 1 >= span.start.line
                    THEN span.end.line + 1 - span.start.line
                    ELSE Len(lines)
          first  == skip + 1
          last   == IF skip + take < Len(lines) THEN skip + take
                    ELSE Len(lines)
          startc(n) == IF n = span.start.line THEN span.start.col ELSE 1
          endc(n)   == IF n = span.end.line THEN span.end.col
                       ELSE Len(lines[n])
          bad(n) == startc(n) < 1 \/ endc(n) + 1 < startc(n)
      IN  IF \E n \in first..last : bad(n)
          THEN [panic |-> TRUE]
          ELSE [panic |-> FALSE,
                extract |->
                  [k \in 1..(last - first + 1) |->
                     LET n == first + k - 1
                     IN  [num |-> n,
                          line |-> lines[n],
                          underline |->
                            Repeat(" ", startc(n) - 1)
                              \o Repeat("^", endc(n) + 1 - startc(n))]],
                span |-> span]

CtxChars == {"a", "\n"}

CtxSources == SeqsUpTo(CtxChars, MaxCtxLen)

CtxLocs == {LocNew(l, c) : l \in 0..MaxLine, c \in 0..MaxCol}

CtxSpans == {SpanNew(a, b) : a \in CtxLocs, b \in CtxLocs}

InitCtx ==
    /\ NoLexer
    /\ NoEnv
    /\ call \in {Pending("ErrorContext::new", <<i, sp>>) :
                   i \in CtxSources, sp \in CtxSpans}

CallErrorContextNew ==
    \E checked \in BOOLEAN :
       Returns("ErrorContext::new",
               IF checked
               THEN ErrorContextNew(call.args[1], call.args[2])
               ELSE ErrorContextNewWrapping(call.args[1], call.args[2]))

NextCtx == CallErrorContextNew

SpecCtx == InitCtx /\ [][NextCtx]_vars

(***************************************************************************)
(* Properties.                                                             *)
(***************************************************************************)
\* the index (1-based) of the character the next iteration starts at
Here == pos + 1

AtChar == Running /\ Here <= Len(source)

\* the last index of the maximal run of characters of C that starts at i
\* (i - 1 when source[i] is not in C)
RunEnd(i, C) ==
    CHOOSE j \in (i - 1)..Len(source) :
        /\ \A k \in i..j : source[k] \in C
        /\ j = Len(source) \/ source[j + 1] \notin C

\* one token was appended and scanning goes on after index j
EmitsOne(j) ==
    /\ Len(tokens') = Len(tokens) + 1
    /\ SubSeq(tokens', 1, Len(tokens)) = tokens
    /\ pos' = j
    /\ result' = result

\* ... and the token is of the kind k
Emits(k, j) == EmitsOne(j) /\ tokens'[Len(tokens')].kind = k

\* ... and the token's kind has the tag t
EmitsTag(t, j) == EmitsOne(j) /\ tokens'[Len(tokens')].kind.tag = t

LocLt(a, b) == a.line < b.line \/ (a.line = b.line /\ a.col < b.col)

LocLeq(a, b) == a = b \/ LocLt(a, b)

\* the 1-based line and column of source[i]
LineOf(i) == 1 + Cardinality({j \in 1..(i - 1) : source[j] = "\n"})

ColOf(i) ==
    LET nls == {j \in 1..(i - 1) : source[j] = "\n"}
    IN  IF nls = {} THEN i ELSE i - (CHOOSE j \in nls : \A k \in nls : k <= j)

\* C1: the characters the claim lists as accepted by some scanning rule
C1_RuleChars ==
    Whitespace \cup Digits \cup Letters
      \cup {"'", "_", ";", ",", "(", ")", "{", "}", "=", "!", "+", "-", "*",
            "/", "<", ">", "&", "|"}

\* C1: when the scanning loop reaches a character no rule accepts, tokenize
\* returns Err(UnexpectedChar(that character)) carrying no token sequence,
\* only that character has been consumed, and once tokenize has returned
\* nothing more is scanned.
C1_AbortsAtFirstOffendingChar ==
    [][ /\ (AtChar /\ source[Here] \notin C1_RuleChars)
           => /\ result'.tag = "Err"
              /\ result'.err = UnexpectedChar(source[Here])
              /\ "tokens" \notin DOMAIN result'
              /\ pos' = Here
        /\ ~Running => UNCHANGED vars ]_vars

\* C1 witness: an error on an unaccepted character after tokens were
\* scanned and before the end of the source
C1_Witness ==
    /\ result.tag = "Err"
    /\ result.err.kind = "UnexpectedChar"
    /\ result.err.ch \notin C1_RuleChars
    /\ Len(tokens) > 0
    /\ pos < Len(source)

\* C2: in the token sequence tokenize returns, every span has start <= end
\* and each token's end is strictly before the next token's start, in
\* (line, column) order.
C2_SpansOrdered ==
    result.tag = "Ok" =>
      /\ \A i \in 1..Len(result.tokens) :
           LocLeq(result.tokens[i].span.start, result.tokens[i].span.end)
      /\ \A i \in 1..(Len(result.tokens) - 1) :
           LocLt(result.tokens[i].span.end, result.tokens[i + 1].span.start)

\* C2 witness: two tokens with no character between them, the second one
\* longer than a character
C2_Witness ==
    /\ result.tag = "Ok"
    /\ \E i \in 1..(Len(result.tokens) - 1) :
         /\ lexemes[i].last + 1 = lexemes[i + 1].first
         /\ lexemes[i + 1].first < lexemes[i + 1].last

\* C3: the span of every emitted token starts at the 1-based line and
\* column of the first character consumed for it and ends at those of the
\* last one; the characters consumed for it start at a character that is
\* neither whitespace nor the start of a comment, and come after all the
\* characters of the token before it.
C3_SpanCoversLexeme ==
    \A i \in 1..Len(tokens) :
       LET t == tokens[i]
           x == lexemes[i]
       IN  /\ 1 <= x.first /\ x.first <= x.last /\ x.last <= Len(source)
           /\ t.span.start = LocNew(LineOf(x.first), ColOf(x.first))
           /\ t.span.end = LocNew(LineOf(x.last), ColOf(x.last))
           /\ ~IsWhitespace(source[x.first])
           /\ source[x.first] = "/" => t.kind.tag = "Slash"
           /\ i > 1 => lexemes[i - 1].last < x.first

\* C3 witness: a token of several characters on the second line, after
\* whitespace
C3_Witness ==
    \E i \in 1..Len(tokens) :
       /\ tokens[i].span.start.line = 2
       /\ tokens[i].span.start.col > 1
       /\ source[lexemes[i].first - 1] = " "
       /\ tokens[i].span.end.col > tokens[i].span.start.col

\* C4: a token that starts at a digit takes the maximal run of digits and,
\* when a '.' follows, the '.' and the maximal run of digits after it; it
\* is one Float token with the '.', one Int token without.
C4_NumberToken ==
    [][ (AtChar /\ source[Here] \in Digits) =>
          LET j == RunEnd(Here, Digits)
          IN  IF CharAt(source, j) = "."
              THEN EmitsTag("Float", RunEnd(j + 2, Digits))
              ELSE EmitsTag("Int", j) ]_vars

\* C5: the escapes of a character literal and the characters they stand for
C5_Unescaped(c) ==
    CASE c = "n" -> "\n"
      [] c = "t" -> "\t"
      [] c = "r" -> "\r"
      [] c = "\\" -> "\\"
      [] c = "'" -> "'"

\* C5: after an opening quote, a character other than ' and \ and then a
\* quote, or one of the five escapes and then a quote, yields one Char
\* token carrying the character; anything else makes tokenize return a
\* SyntaxError (UnexpectedChar or UnexpectedEOF).
C5_CharLiteral ==
    [][ (AtChar /\ source[Here] = "'") =>
          LET a == CharAt(source, Here)
              b == CharAt(source, Here + 1)
              c == CharAt(source, Here + 2)
          IN  IF a \notin {"'", "\\", None} /\ b = "'"
              THEN Emits(KChar(a), Here + 2)
              ELSE IF a = "\\" /\ b \in {"n", "t", "r", "\\", "'"} /\ c = "'"
              THEN Emits(KChar(C5_Unescaped(b)), Here + 3)
              ELSE /\ result'.tag = "Err"
                   /\ result'.err.kind \in {"UnexpectedChar", "UnexpectedEOF"}
      ]_vars

\* C6: the token kind the claim gives to an identifier run
C6_Expected(run) ==
    CASE run = <<"t", "r", "u", "e">> -> KBool(TRUE)
      [] run = <<"f", "a", "l", "s", "e">> -> KBool(FALSE)
      [] run = <<"v", "a", "r">> -> Simple("Var")
      [] run = <<"c", "o", "n", "s", "t">> -> Simple("Const")
      [] run = <<"p", "r", "i", "n", "t">> -> Simple("Print")
      [] run = <<"b", "r", "e", "a", "k">> -> Simple("Break")
      [] run = <<"c", "o", "n", "t", "i", "n", "u", "e">> -> Simple("Continue")
      [] run = <<"i", "f">> -> Simple("If")
      [] run = <<"e", "l", "s", "e">> -> Simple("Else")
      [] run = <<"w", "h", "i", "l", "e">> -> Simple("While")
      [] run = <<"f", "u", "n", "c">> -> Simple("Func")
      [] run = <<"r", "e", "t", "u", "r", "n">> -> Simple("Return")
      [] OTHER -> KName(run)

\* C6: a token that starts at a letter or underscore takes the maximal run
\* of letters, digits and underscores and is classified by the whole run:
\* Bool for true/false, the keyword token for the ten keywords, Name(run)
\* for anything else.
C6_NameOrKeyword ==
    [][ (AtChar /\ source[Here] \in Letters \cup {"_"}) =>
          LET j == RunEnd(Here, Letters \cup Digits \cup {"_"})
          IN  Emits(C6_Expected(SubSeq(source, Here, j)), j) ]_vars

\* C6 witness: a Name token whose text is a keyword and one more character
C6_Witness ==
    \E i \in 1..Len(tokens) :
       /\ tokens[i].kind.tag = "Name"
       /\ \E c \in {"1", "_", "y"} :
            tokens[i].kind.name \in {<<"i", "f">> \o <<c>>,
                                     <<"t", "r", "u", "e">> \o <<c>>,
                                     <<"v", "a", "r">> \o <<c>>}

\* C7: "&&" yields one And token and "||" one Or token; a '&' or '|' not
\* followed by the same character makes tokenize return
\* Err(UnexpectedChar) carrying that '&' or '|'.
C7_AndOr ==
    [][ (AtChar /\ source[Here] \in {"&", "|"}) =>
          IF CharAt(source, Here) = source[Here]
          THEN Emits(Simple(IF source[Here] = "&" THEN "And" ELSE "Or"),
                     Here + 1)
          ELSE /\ result'.tag = "Err"
               /\ result'.err = UnexpectedChar(source[Here]) ]_vars

\* C7 witness: an error carrying '&' or '|' with another character after it
C7_Witness ==
    /\ result.tag = "Err"
    /\ result.err.kind = "UnexpectedChar"
    /\ result.err.ch \in {"&", "|"}
    /\ pos < Len(source)
    /\ source[pos] = result.err.ch
    /\ source[pos + 1] \in {"&", "|", " ", "a"}

\* C8: the one- and two-character tokens of = ! < >
C8_One(c) ==
    CASE c = "=" -> Simple("Assign")
      [] c = "!" -> Simple("Not")
      [] c = "<" -> Simple("Less")
      [] c = ">" -> Simple("Greater")

C8_Two(c) ==
    CASE c = "=" -> Simple("Equal")
      [] c = "!" -> Simple("NotEqual")
      [] c = "<" -> Simple("LessEqual")
      [] c = ">" -> Simple("GreaterEqual")

\* C8: each of = ! < > yields its two-character token, consuming two
\* characters, exactly when the next character is '=', and otherwise its
\* one-character token, consuming one character.
C8_OptionalEq ==
    [][ (AtChar /\ source[Here] \in {"=", "!", "<", ">"}) =>
          IF CharAt(source, Here) = "="
          THEN Emits(C8_Two(source[Here]), Here + 1)
          ELSE Emits(C8_One(source[Here]), Here) ]_vars

\* C8 witness: "===" scanned as Equal then Assign
C8_Witness ==
    /\ source = <<"=", "=", "=">>
    /\ result.tag = "Ok"
    /\ Len(result.tokens) = 2
    /\ result.tokens[1].kind = Simple("Equal")
    /\ result.tokens[2].kind = Simple("Assign")

\* C9: "/*" at index i with no "*/" whose '*' comes after it
C9_Unterminated(i) ==
    /\ i < Len(source)
    /\ source[i] = "/"
    /\ source[i + 1] = "*"
    /\ ~\E j \in (i + 2)..(Len(source) - 1) :
           source[j] = "*" /\ source[j + 1] = "/"

\* C9: a block comment that is not closed before the end of the input is
\* skipped to the end without an error and without a token, and tokenize
\* then returns Ok with the tokens scanned before the comment.
C9_UnterminatedBlockComment ==
    [][ /\ (AtChar /\ C9_Unterminated(Here))
           => /\ tokens' = tokens
              /\ pos' = Len(source)
              /\ result' = result
        /\ (Running /\ pos = Len(source))
           => result' = [tag |-> "Ok", tokens |-> tokens] ]_vars

\* C9 witness: Ok with a token before an unterminated comment that has
\* text in it
C9_Witness ==
    /\ result.tag = "Ok"
    /\ Len(result.tokens) > 0
    /\ LET i == lexemes[Len(lexemes)].last + 1
       IN  C9_Unterminated(i) /\ i + 1 < Len(source)

\* C10: tokenizing the text that Display gives for a Name, Int, Float or
\* Bool token succeeds with a single token of the same kind.
C10_RoundTrip ==
    \A k \in RenderedKinds :
       (source = Display([kind |-> k, span |-> SpanDefault]) /\ ~Running)
         => /\ result.tag = "Ok"
            /\ Len(result.tokens) = 1
            /\ result.tokens[1].kind = k

\* the span whose start and end are both the empty Loc
C11_EmptySpan == [start |-> [line |-> 0, col |-> 0], end |-> [line |-> 0, col |-> 0]]

\* C11: a span with both ends (0,0) compares equal to every span, as the
\* left and as the right operand; two spans that are both not so compare
\* equal exactly when their starts are the same and their ends are the same.
C11_SpanEquality ==
    Returned("Span::eq") =>
      LET a == call.args[1]
          b == call.args[2]
      IN  IF a = C11_EmptySpan \/ b = C11_EmptySpan
          THEN call.ret = TRUE
          ELSE call.ret = (a.start = b.start /\ a.end = b.end)

\* C11 witness: an empty span on the right of a different, half-empty span
\* compared equal
C11_Witness ==
    /\ Returned("Span::eq")
    /\ call.args[2] = C11_EmptySpan
    /\ call.args[1].start = [line |-> 0, col |-> 0]
    /\ call.args[1].end # [line |-> 0, col |-> 0]
    /\ call.ret = TRUE

\* C12: Loc(0,0) compares equal to every Loc, on either side.
C12_EmptyLocEqualsAll ==
    (Returned("Loc::eq")
       /\ [line |-> 0, col |-> 0] \in {call.args[1], call.args[2]})
      => call.ret = TRUE

\* C12 amended: Loc(0,0) compares equal to a Loc, on either side, exactly
\* when that Loc is (0,0) too.
C12_EmptyLocEqualsItself ==
    (Returned("Loc::eq")
       /\ [line |-> 0, col |-> 0] \in {call.args[1], call.args[2]})
      => call.ret = (call.args[1] = call.args[2])

\* C12 witness: the empty Loc compared with another Loc, unequal
C12_Witness ==
    /\ Returned("Loc::eq")
    /\ call.args[1] = [line |-> 0, col |-> 0]
    /\ call.args[2] = [line |-> 1, col |-> 0]
    /\ call.ret = FALSE

\* C13: the token kinds that stand for a binary, a unary, a relational
\* operator
C13_Mapped(fn) ==
    CASE fn = "BinOpKind::from" -> {"Plus", "Minus", "Star", "Slash", "And", "Or"}
      [] fn = "UnaryOpKind::from" -> {"Plus", "Minus", "Not"}
      [] fn = "CompOpKind::from" ->
           {"Less", "LessEqual", "Greater", "GreaterEqual", "Equal", "NotEqual"}

\* C13: converting a token kind to a binary, unary or relational operator
\* never aborts, and for a token kind that has no such operator it
\* returns an error value.
C13_ConversionReturnsError ==
    \A fn \in {"BinOpKind::from", "UnaryOpKind::from", "CompOpKind::from"} :
       Returned(fn) =>
         /\ call.ret.tag # "Panic"
         /\ call.args[1].tag \notin C13_Mapped(fn) => call.ret.tag = "Err"

\* C14: every value is an Int, a Float, a Char or a Bool, and two values
\* with the same tag have the same type.
C14_TypeDeterminedByTag ==
    Returned("WabbitValue::type_of") =>
      /\ call.args[1].tag \in {"Int", "Float", "Char", "Bool"}
      /\ call.args[1].tag = call.args[2].tag => call.ret[1] = call.ret[2]

\* the scopes that exist before a step keep their bindings and parent
C15_OldScopesKept ==
    /\ Len(arena') >= Len(arena)
    /\ \A i \in 1..Len(arena) : arena'[i] = arena[i]

\* C15: enter_scope allocates exactly one new scope, with no bindings and
\* with the scope that was current as its parent, makes it current, and
\* leaves every scope that existed unchanged.
C15_EnterScope ==
    [][EnterScope =>
         /\ Len(arena') = Len(arena) + 1
         /\ current' = Len(arena')
         /\ arena'[current'].values = {}
         /\ arena'[current'].parent = current
         /\ C15_OldScopesKept]_vars

\* enter_scope was called when the current scope was not the newest one
C15_Witness ==
    /\ call.fn = "Environment::enter_scope"
    /\ call.args[1] > 1
    /\ call.args[1] < Len(arena) - 1
    /\ current = Len(arena)
    /\ arena[current].parent = call.args[1]

\* C16: exit_scope makes the parent of the current scope current, or
\* changes nothing when the current scope is the root; the arena is
\* the same after the call.
C16_ExitScope ==
    [][ExitScope =>
         /\ arena[current].parent # NoParent => current' = arena[current].parent
         /\ arena[current].parent = NoParent => current' = current /\ current = 1
         /\ arena' = arena
         /\ call'.ret = "()"]_vars

\* exit_scope was called at the root of an environment that has inner
\* scopes
C16_Witness ==
    /\ call.fn = "Environment::exit_scope"
    /\ call.args[1] = 1
    /\ current = 1
    /\ Len(arena) >= 3

\* C17: the arena holds 1 + (number of enter_scope calls) scopes, the
\* count never decreases and every scope keeps the parent it was
\* created with.
C17_ScopesNeverReleased ==
    [][/\ Len(arena) = 1 + enters
       /\ Len(arena') = 1 + enters'
       /\ Len(arena') >= Len(arena)
       /\ \A i \in 1..Len(arena) : arena'[i].parent = arena[i].parent]_vars

\* every scope entered has been left again and all of them are still in
\* the arena
C17_Witness ==
    /\ enters = MaxEnters
    /\ Len(arena) = 1 + MaxEnters
    /\ current = 1
    /\ \E i \in 1..Len(arena) : arena[i].parent > 1

\* the span lies within the source: its lines exist, its columns are
\* columns of characters of these lines, and it does not end before it
\* starts
C18_Within(input, span) ==
    LET lines == SplitLines(input)
    IN  /\ 1 <= span.start.line
        /\ span.start.line <= span.end.line
        /\ span.end.line <= Len(lines)
        /\ 1 <= span.start.col
        /\ span.start.col <= Len(lines[span.start.line])
        /\ 1 <= span.end.col
        /\ span.end.col <= Len(lines[span.end.line])
        /\ span.start.line = span.end.line => span.start.col <= span.end.col

\* C18: for a span within the source the extract is the source lines
\* start.line..end.line, one underline each; on a single line with
\* 1 <= start.col <= end.col the underline is start.col - 1 spaces and
\* end.col - start.col + 1 carets; for an empty source the extract is
\* empty.
C18_ExtractAndUnderline ==
    Returned("ErrorContext::new") =>
      LET input == call.args[1]
          span  == call.args[2]
          lines == SplitLines(input)
          ret   == call.ret
      IN  /\ input = <<>> => ~ret.panic /\ ret.extract = <<>>
          /\ input # <<>> /\ C18_Within(input, span) =>
               /\ ~ret.panic
               /\ Len(ret.extract) = span.end.line - span.start.line + 1
               /\ \A k \in 1..Len(ret.extract) :
                    /\ ret.extract[k].num = span.start.line + k - 1
                    /\ ret.extract[k].line = lines[span.start.line + k - 1]
               /\ span.start.line = span.end.line =>
                    ret.extract[1].underline =
                      Repeat(" ", span.start.col - 1)
                        \o Repeat("^", span.end.col - span.start.col + 1)

\* C19: tokenize never aborts: where it scans a run of digits, whatever
\* the value of the run (also above 2^31 - 1), it goes on with a token
\* or returns an error.
C19_NumberNeverAborts ==
    [][ (AtChar /\ source[Here] \in Digits) =>
          result'.tag \in {"None", "Ok", "Err"} ]_vars

\* C20: the index of the last character of the line comment that starts
\* at i: the next newline, or the end of the input
C20_LineCommentEnd(i) ==
    IF \E j \in (i + 2)..Len(source) : source[j] = "\n"
    THEN CHOOSE j \in (i + 2)..Len(source) :
             source[j] = "\n" /\ \A k \in (i + 2)..(j - 1) : source[k] # "\n"
    ELSE Len(source)

\* C20: the indices of the '*' of the "*/" that come after the "/*" at i
C20_Closers(i) ==
    {j \in (i + 2)..(Len(source) - 1) : source[j] = "*" /\ source[j + 1] = "/"}

\* C20: the index of the last character of the block comment that starts
\* at i: the '/' of the first of these "*/", or the end of the input
C20_BlockCommentEnd(i) ==
    IF C20_Closers(i) # {}
    THEN 1 + (CHOOSE j \in C20_Closers(i) : \A k \in C20_Closers(i) : j <= k)
    ELSE Len(source)

\* C20: a comment yields no token; a line comment is consumed up to and
\* including the next newline or to the end of the input; a block
\* comment ends with the first "*/" whose '*' comes after the "/*", and
\* the text after it is tokenized: "/* /* */ x */" yields Name(x), Star,
\* Slash.
C20_Comments ==
    [][ /\ (AtChar /\ source[Here] = "/" /\ CharAt(source, Here) = "/")
           => /\ tokens' = tokens
              /\ result' = result
              /\ pos' = C20_LineCommentEnd(Here)
        /\ (AtChar /\ source[Here] = "/" /\ CharAt(source, Here) = "*")
           => /\ tokens' = tokens
              /\ result' = result
              /\ pos' = C20_BlockCommentEnd(Here)
        /\ (source = NestedCommentSource /\ ~Running')
           => /\ result'.tag = "Ok"
              /\ [i \in 1..Len(result'.tokens) |-> result'.tokens[i].kind]
                   = <<KName(<<"x">>), Simple("Star"), Simple("Slash")>> ]_vars

\* C20 witness: the comment of "/* /* */ x */" ended at its first "*/"
\* and the rest was tokenized
C20_Witness ==
    /\ source = NestedCommentSource
    /\ result.tag = "Ok"
    /\ Len(result.tokens) = 3
    /\ result.tokens[1].kind = KName(<<"x">>)
    /\ lexemes[1].first = 10

\* C21: when an iteration that does not scan a number ends tokenize
\* without the tokens, tokenize returns an error whose context has the
\* span (loc, loc) of the last character consumed and the source line of
\* that position as its excerpt; the context is built for every such
\* position, also for column 0 after a consumed newline.
C21_ErrorCarriesContext ==
    [][ (AtChar /\ source[Here] \notin Digits /\ result'.tag # "None") =>
          /\ result'.tag = "Err"
          /\ result'.ctx.span = SpanNew(loc', loc')
          /\ Len(result'.ctx.extract) = 1
          /\ result'.ctx.extract[1].num = loc'.line
          /\ result'.ctx.extract[1].line = SplitLines(source)[loc'.line] ]_vars

\* the scope n parent links above scope i (0 when the chain ends before)
RECURSIVE C22_Ancestor(_, _, _)
C22_Ancestor(a, i, n) ==
    IF n = 0 THEN i
    ELSE IF a[i].parent = NoParent THEN 0
    ELSE C22_Ancestor(a, a[i].parent, n - 1)

\* following the parent links from scope cur reaches the root, scope 1,
\* in exactly d steps
C22_RootInExactly(a, cur, d) ==
    /\ a[1].parent = NoParent
    /\ C22_Ancestor(a, cur, d) = 1
    /\ \A n \in 0..(d - 1) : C22_Ancestor(a, cur, n) \notin {0, 1}

\* C22: the current scope is depth parent links away from the root, where
\* depth counts +1 per enter_scope and -1, not below 0, per exit_scope;
\* the chain of parents reaches the root in exactly that many steps; and
\* exit_scope right after enter_scope restores the scope that was current
\* before the two calls.
C22_DepthMatchesCalls ==
    [][/\ C22_RootInExactly(arena, current, depth)
       /\ C22_RootInExactly(arena', current', depth')
       /\ (ExitScope /\ call.fn = "Environment::enter_scope")
            => current' = call.args[1]]_vars

\* exit_scope was called at the root after scopes had been entered and
\* left: the count stays 0, and so does the distance
C22_Witness ==
    /\ call.fn = "Environment::exit_scope"
    /\ call.args[1] = 1
    /\ depth = 0
    /\ current = 1
    /\ enters >= 2
    /\ \E i \in 1..Len(arena) : C22_Ancestor(arena, i, 2) = 1

\* C23: the inner loops started on the lexer L take one character per
\* iteration that goes on (a digit or name loop has consumed as many
\* characters as it collected), a comment loop that has a character to
\* read consumes at least one, and none reads past the end
C23_InnerLoops(L) ==
    /\ TakeDigits(L, <<>>).l.pos = L.pos + Len(TakeDigits(L, <<>>).num)
    /\ TakeName(L, <<>>).l.pos = L.pos + Len(TakeName(L, <<>>).name)
    /\ \A e \in {TakeDigits(L, <<>>).l, TakeName(L, <<>>).l,
                 SkipLineComment(L), SkipBlockComment(L)} :
          e.pos >= L.pos /\ e.pos <= Len(L.input)
    /\ L.pos < Len(L.input) =>
          SkipLineComment(L).pos > L.pos /\ SkipBlockComment(L).pos > L.pos

\* C23: tokenize terminates on every source text: an iteration of the
\* scanning loop consumes at least one character, and so do the
\* iterations of the inner loops; the read position only increases and
\* stays within the source; tokens are only appended.
C23_Terminates ==
    /\ [][/\ pos <= pos'
          /\ pos' <= Len(source)
          /\ AtChar => pos' > pos /\ C23_InnerLoops(Begin(Self).l)
          /\ Len(tokens') >= Len(tokens)
          /\ SubSeq(tokens', 1, Len(tokens)) = tokens]_vars
    /\ <>(~Running)

\* C23 witness: tokenize has returned after reading the whole of a source
\* of several tokens, one of them scanned by an inner loop
C23_Witness ==
    /\ result.tag = "Ok"
    /\ pos = Len(source)
    /\ Len(tokens) >= 2
    /\ \E i \in 1..Len(lexemes) : lexemes[i].last >= lexemes[i].first + 2

=============================================================================
